---- MODULE Spec2Model ----
(***************************************************************************)
(* Contact discovery and outreach eligibility engine of music_outreach.py. *)
(*                                                                         *)
(* The persisted store (outreach_contacts.json), the in-memory list        *)
(* self.contacts of the running process, the clock and the position of     *)
(* main() are the state.  One run of main() starts from pc = "idle" or     *)
(* "done", loads the store, and either finishes in the same step or walks  *)
(* the send loop one scheduled contact per step.                           *)
(*                                                                         *)
(* Time is counted in whole days.  Strings that Python tests for truth     *)
(* (email, contact_form_url, website) use "" for None.  Confidence scores  *)
(* are counted in tenths.                                                  *)
(***************************************************************************)
EXTENDS Integers, Sequences, FiniteSets, TLC

VARIABLES
    contacts_file,   \* outreach_contacts.json: [state, data]
    contacts,        \* self.contacts of the current (or last) run
    now,             \* datetime.now(), in days
    pc,              \* position of main(): "idle", "send", "isend", "asend", "done"
    args,            \* the command line of the current (or last) run
    targets,         \* the send list: indices into contacts, in send order
    idx,             \* next position of the send loop
    log,             \* what the current run did, in order
    runs,            \* runs of main() started so far
    slept            \* the time.sleep calls of the run's sending loop

vars == <<contacts_file, contacts, now, pc, args, targets, idx, log, runs, slept>>

----------------------------------------------------------------------------
\* Program constants

max_outreach_per_contact == 4
min_outreach_interval == 7
daily_outreach_limit == 20

\* Optional[str] = None for the two timestamps
None == -1

\* Bounds of the model

\* the first day of the model's clock
Now0 == 30
\* days the clock may advance in total
MaxDays == 1
\* records in the persisted store at the start
MaxContacts == 2

----------------------------------------------------------------------------
\* Small helpers

Range(s) == {s[i] : i \in 1..Len(s)}

Min(a, b) == IF a <= b THEN a ELSE b

Max(a, b) == IF a >= b THEN a ELSE b

\* Python's s[:n]
Slice(s, n) ==
    IF n >= 0 THEN SubSeq(s, 1, Min(n, Len(s)))
    ELSE SubSeq(s, 1, Max(Len(s) + n, 0))

----------------------------------------------------------------------------
\* Contact

\* str.lower() on the strings of the model
Lower(s) ==
    CASE s = "Pitchfork" -> "pitchfork"
      [] s = "PITCHFORK" -> "pitchfork"
      [] s = "Bandcamp" -> "bandcamp"
      [] s = "Earmilk" -> "earmilk"
      [] s = "DuckDuckGo" -> "duckduckgo"
      [] s = "Bing Webmaster Tools" -> "bing webmaster tools"
      [] s = "Spotify Editorial" -> "spotify editorial"
      [] s = "Lofi Weekly" -> "lofi weekly"
      [] s = "Google Search Console" -> "google search console"
      [] s = "XLR8R" -> "xlr8r"
      [] s = "https://XLR8R.com" -> "https://xlr8r.com"
      [] s = "TIPS@pitchfork.com" -> "tips@pitchfork.com"
      [] s = " Fan@Example.com " -> " fan@example.com "
      [] OTHER -> s

\* post_init_hash without .lower()
post_init_hash_case_kept(name, website, email) ==
    <<name, IF website # "" THEN website ELSE email>>

\* Contact.__post_init__: the fingerprint when none is given
post_init_hash(name, website, email) ==
    <<Lower(name), Lower(IF website # "" THEN website ELSE email)>>

\* Contact(...) with the dataclass defaults
Contact(name, type, email, website, form, conf) ==
    [ name |-> name, type |-> type, email |-> email, website |-> website,
      contact_form_url |-> form, status |-> "pending", outreach_count |-> 0,
      last_outreach |-> None, contacted_date |-> None,
      confidence_score |-> conf,
      contact_hash |-> post_init_hash(name, website, email) ]

\* a record as a finished earlier run (or the operator, for responded and
\* rejected) left it in the store
Rec(c, status, count, last, cdate) ==
    [c EXCEPT !.status = status, !.outreach_count = count,
              !.last_outreach = last, !.contacted_date = cdate]

Pitchfork == Contact("Pitchfork", "publication", "tips@pitchfork.com", "", "", 5)
XLR8R == Contact("XLR8R", "publication", "info@xlr8r.com", "https://XLR8R.com", "", 9)
Earmilk == Contact("Earmilk", "curator", "submissions@earmilk.com", "", "", 5)
Bandcamp == Contact("Bandcamp", "platform", "", "", "https://bandcamp.com/contact", 5)
DuckDuckGo == Contact("DuckDuckGo", "search_engine", "", "", "https://duckduckgo.com/feedback", 5)
GoogleSearchConsole == Contact("Google Search Console", "search_engine", "", "", "", 5)
SpotifyEditorial == Contact("Spotify Editorial", "platform", "", "", "", 5)
\* a search engine whose record was given an email address in the store
BingWebmaster ==
    Contact("Bing Webmaster Tools", "search_engine", "webmaster@bing.com", "", "", 5)

\* initialize_contacts: the seed list (three of its records: one without a
\* channel, one with an email, one with a contact form only)
contacts_data == <<GoogleSearchConsole, Pitchfork, Bandcamp>>

\* the records a store can hold when the model starts
SeedRecords ==
    { Pitchfork, XLR8R, Earmilk, Bandcamp, DuckDuckGo, GoogleSearchConsole,
      SpotifyEditorial,
      Rec(Pitchfork, "contacted", 3, Now0 - 7, Now0 - 21),
      Rec(Pitchfork, "contacted", 3, Now0 - 6, Now0 - 20),
      Rec(Earmilk, "contacted", 4, Now0 - 7, Now0 - 28),
      Rec(Pitchfork, "responded", 1, Now0 - 9, Now0 - 9),
      Rec(Earmilk, "rejected", 1, Now0 - 9, Now0 - 9),
      Rec(XLR8R, "contacted", 1, Now0 - 7, Now0 - 7),
      Rec(Bandcamp, "manual_submission_required", 1, Now0 - 7, Now0 - 7),
      Rec(GoogleSearchConsole, "rejected", 0, None, None),
      \* stamped by submit_to_search_engines three days ago, its mail failed
      Rec(BingWebmaster, "manual_submission_required", 0, None, Now0 - 3),
      \* the email of the record was corrected in the file, the fingerprint
      \* is the one of the old address
      [Pitchfork EXCEPT !.email = "news@pitchfork.com"],
      \* a record written by hand, without a contact_hash
      [Earmilk EXCEPT !.contact_hash = <<>>] }

RECURSIVE SeqsUpTo(_, _)
SeqsUpTo(S, n) ==
    IF n = 0 THEN {<<>>}
    ELSE LET shorter == SeqsUpTo(S, n - 1)
         IN shorter \cup {Append(s, x) : s \in shorter, x \in S}

DistinctNames(s) == \A i, j \in 1..Len(s) : s[i].name = s[j].name => i = j

InitStores == {s \in SeqsUpTo(SeedRecords, MaxContacts) : DistinctNames(s)}

----------------------------------------------------------------------------
\* The persisted store

FileMissing == [state |-> "missing", data |-> <<>>]
FileCorrupt == [state |-> "corrupt", data |-> <<>>]
FileOf(cs) == [state |-> "ok", data |-> cs]

\* from_dict computing the fingerprint anew on every load
from_dict_recomputed(d) ==
    [d EXCEPT !.contact_hash = post_init_hash(d.name, d.website, d.email)]

\* Contact(**contact): __post_init__ keeps a fingerprint that is present
from_dict(d) ==
    IF d.contact_hash = <<>>
    THEN [d EXCEPT !.contact_hash = post_init_hash(d.name, d.website, d.email)]
    ELSE d

\* asdict(contact): every field of the dataclass under its name; json
\* writes and reads strings, numbers and null as they are
asdict(c) == [f \in DOMAIN c |-> c[f]]

\* save_contacts writing, record by record, what has the higher
\* outreach_count of the list and the file
save_contacts_merged(cs) ==
    FileOf([i \in 1..Len(cs) |->
               IF /\ i <= Len(contacts_file.data)
                  /\ contacts_file.data[i].outreach_count > cs[i].outreach_count
               THEN contacts_file.data[i] ELSE asdict(cs[i])])

\* save_contacts: the file it writes
save_contacts(cs) == FileOf([i \in 1..Len(cs) |-> asdict(cs[i])])

\* load_contacts: the list in memory after the constructor
load_contacts(file) ==
    IF file.state = "ok" THEN [i \in 1..Len(file.data) |-> from_dict(file.data[i])]
    ELSE IF file.state = "corrupt" THEN <<>>
    ELSE contacts_data

\* load_contacts: the file after the constructor (initialize_contacts saves)
load_contacts_file(file) ==
    IF file.state = "missing" THEN FileOf(contacts_data) ELSE file

----------------------------------------------------------------------------
\* Eligibility and ordering

\* eligible_one without the type filter
eligible_one_any_type(c, target_types, cutoff_date) ==
    IF c.outreach_count >= max_outreach_per_contact THEN FALSE
    ELSE IF c.last_outreach # None /\ c.last_outreach > cutoff_date THEN FALSE
    ELSE c.status \in {"pending", "contacted", "manual_submission_required"}

\* eligible_one with the attempt cap off by one (> for >=)
eligible_one_cap_inclusive(c, target_types, cutoff_date) ==
    IF target_types # {} /\ c.type \notin target_types THEN FALSE
    ELSE IF c.outreach_count > max_outreach_per_contact THEN FALSE
    ELSE IF c.last_outreach # None /\ c.last_outreach > cutoff_date THEN FALSE
    ELSE c.status \in {"pending", "contacted", "manual_submission_required"}

\* eligible_one with the interval test off by one (>= for >)
eligible_one_interval_strict(c, target_types, cutoff_date) ==
    IF target_types # {} /\ c.type \notin target_types THEN FALSE
    ELSE IF c.outreach_count >= max_outreach_per_contact THEN FALSE
    ELSE IF c.last_outreach # None /\ c.last_outreach >= cutoff_date THEN FALSE
    ELSE c.status \in {"pending", "contacted", "manual_submission_required"}

\* eligible_one without the test of the number of attempts
eligible_one_uncapped(c, target_types, cutoff_date) ==
    IF target_types # {} /\ c.type \notin target_types THEN FALSE
    ELSE IF c.last_outreach # None /\ c.last_outreach > cutoff_date THEN FALSE
    ELSE c.status \in {"pending", "contacted", "manual_submission_required"}

\* eligible_one with the cutoff one day late
eligible_one_interval_short(c, target_types, cutoff_date) ==
    IF target_types # {} /\ c.type \notin target_types THEN FALSE
    ELSE IF c.outreach_count >= max_outreach_per_contact THEN FALSE
    ELSE IF c.last_outreach # None /\ c.last_outreach > cutoff_date + 1 THEN FALSE
    ELSE c.status \in {"pending", "contacted", "manual_submission_required"}

\* the body of the loop of get_eligible_contacts: TRUE when c is appended
eligible_one(c, target_types, cutoff_date) ==
    IF target_types # {} /\ c.type \notin target_types THEN FALSE
    ELSE IF c.outreach_count >= max_outreach_per_contact THEN FALSE
    ELSE IF c.last_outreach # None /\ c.last_outreach > cutoff_date THEN FALSE
    ELSE c.status \in {"pending", "contacted", "manual_submission_required"}

\* eligible_from appending every eligible contact twice
RECURSIVE eligible_from_repeated(_, _, _, _)
eligible_from_repeated(cs, i, target_types, cutoff_date) ==
    IF i > Len(cs) THEN <<>>
    ELSE (IF eligible_one(cs[i], target_types, cutoff_date) THEN <<i, i>> ELSE <<>>)
         \o eligible_from_repeated(cs, i + 1, target_types, cutoff_date)

RECURSIVE eligible_from(_, _, _, _)
eligible_from(cs, i, target_types, cutoff_date) ==
    IF i > Len(cs) THEN <<>>
    ELSE (IF eligible_one(cs[i], target_types, cutoff_date) THEN <<i>> ELSE <<>>)
         \o eligible_from(cs, i + 1, target_types, cutoff_date)

\* get_eligible_contacts: the positions of the eligible contacts, in store order
get_eligible_contacts(cs, target_types, t) ==
    eligible_from(cs, 1, target_types, t - min_outreach_interval)

\* key_less with the confidence ascending (the minus sign lost)
key_less_confidence_ascending(a, b) ==
    \/ a.outreach_count < b.outreach_count
    \/ /\ a.outreach_count = b.outreach_count
       /\ a.confidence_score < b.confidence_score

\* key=lambda c: (c.outreach_count, -c.confidence_score), compared as tuples
key_less(a, b) ==
    \/ a.outreach_count < b.outreach_count
    \/ /\ a.outreach_count = b.outreach_count
       /\ (0 - a.confidence_score) < (0 - b.confidence_score)

\* list.sort is stable: i goes behind everything that is not greater
RECURSIVE insert_sorted(_, _, _)
insert_sorted(cs, sorted, i) ==
    IF sorted = <<>> THEN <<i>>
    ELSE IF key_less(cs[i], cs[Head(sorted)]) THEN <<i>> \o sorted
    ELSE <<Head(sorted)>> \o insert_sorted(cs, Tail(sorted), i)

RECURSIVE sort_from(_, _, _)
sort_from(cs, ixs, sorted) ==
    IF ixs = <<>> THEN sorted
    ELSE sort_from(cs, Tail(ixs), insert_sorted(cs, sorted, Head(ixs)))

\* targets.sort(key=...)
sort_by_priority(cs, ixs) == sort_from(cs, ixs, <<>>)

\* send_outreach_emails, lines 816-826: the truncated send list
send_list(cs, target_types, limit, t) ==
    LET sorted == sort_by_priority(cs, get_eligible_contacts(cs, target_types, t))
    IN IF limit # 0 THEN Slice(sorted, limit)
       ELSE Slice(sorted, daily_outreach_limit)

----------------------------------------------------------------------------
\* Discovery

\* search_queries[:2] and results[:5]
queries_per_run == 2
results_per_query == 5

\* Bounds of the web the model searches
\* result URLs a search returns
MaxResults == 2
\* records the store may grow to
MaxStore == 4

URLs == {"https://XLR8R.com", "https://lofiweekly.net"}

\* what calculate_confidence_score looks for in the text of a page
Indicators(submission, genre, independent, contact, mainstream, short) ==
    [ submission |-> submission, genre |-> genre, independent |-> independent,
      contact |-> contact, mainstream |-> mainstream, short |-> short ]

\* calculate_confidence_score without the clamp
calculate_confidence_score_unclamped(text) ==
    5 + (IF text.submission THEN 3 ELSE 0) + (IF text.genre THEN 2 ELSE 0)
      + (IF text.independent THEN 1 ELSE 0) + (IF text.contact THEN 1 ELSE 0)
      - (IF text.mainstream THEN 1 ELSE 0) - (IF text.short THEN 1 ELSE 0)

\* calculate_confidence_score, in tenths
calculate_confidence_score(text) ==
    LET base == 5
        s1 == IF text.submission THEN base + 3 ELSE base
        s2 == IF text.genre THEN s1 + 2 ELSE s1
        s3 == IF text.independent THEN s2 + 1 ELSE s2
        s4 == IF text.contact THEN s3 + 1 ELSE s3
        s5 == IF text.mainstream THEN s4 - 1 ELSE s4
        score == IF text.short THEN s5 - 1 ELSE s5
    IN Max(0, Min(10, score))

\* the text of the page behind a URL
PageText(url) ==
    IF url = "https://XLR8R.com"
    THEN Indicators(TRUE, FALSE, FALSE, TRUE, FALSE, FALSE)
    ELSE Indicators(FALSE, FALSE, FALSE, FALSE, FALSE, FALSE)

\* what scrape_music_site builds from the page behind a URL
Page(url) ==
    IF url = "https://XLR8R.com"
    THEN Contact("XLR8R", "publication", "info@xlr8r.com", url, "",
                 calculate_confidence_score(PageText(url)))
    ELSE Contact("Lofi Weekly", "curator", "", url, "https://lofiweekly.net/submit",
                 calculate_confidence_score(PageText(url)))

\* one run's view of the web: the result URLs of each search (a failed
\* search returns none), whether the fetch of a URL succeeds and whether
\* the page fetched has an email or a contact form on it
CrawlEnvs ==
    [ results : [1..queries_per_run -> SeqsUpTo(URLs, MaxResults)],
      fetch_ok : [URLs -> BOOLEAN],
      has_contact : [URLs -> BOOLEAN] ]

\* the views that differ in the contacts returned: a page without contact
\* details returns what a failed fetch returns
WebEnvs == {env \in CrawlEnvs : \A url \in URLs : env.has_contact[url]}

\* scrape_music_site: the contacts one visit returns
scrape_music_site(url, env) ==
    IF env.fetch_ok[url] /\ env.has_contact[url] THEN <<Page(url)>> ELSE <<>>

\* the inner loop of discover_new_sources over one query's results
RECURSIVE scrape_results(_, _, _, _, _)
scrape_results(results, k, new_contacts, max_new_sources, env) ==
    IF k > Len(results) THEN new_contacts
    ELSE LET extended == new_contacts \o scrape_music_site(results[k], env)
         IN IF Len(extended) >= max_new_sources THEN extended
            ELSE scrape_results(results, k + 1, extended, max_new_sources, env)

\* the outer loop of discover_new_sources over the queries
RECURSIVE scrape_queries(_, _, _, _)
scrape_queries(q, new_contacts, max_new_sources, env) ==
    IF q > queries_per_run THEN new_contacts
    ELSE scrape_queries(q + 1,
             scrape_results(Slice(env.results[q], results_per_query), 1,
                            new_contacts, max_new_sources, env),
             max_new_sources, env)

\* the visits of scrape_music_site made by the same two loops, in order:
\* the URL and whether the visit returned a contact
Visit(url, found) == [op |-> "scrape", i |-> url, ok |-> found]

Found(visits) == Cardinality({k \in 1..Len(visits) : visits[k].ok})

RECURSIVE visit_results(_, _, _, _, _)
visit_results(results, k, visits, max_new_sources, env) ==
    IF k > Len(results) THEN visits
    ELSE LET extended ==
                 Append(visits, Visit(results[k],
                                      scrape_music_site(results[k], env) # <<>>))
         IN IF Found(extended) >= max_new_sources THEN extended
            ELSE visit_results(results, k + 1, extended, max_new_sources, env)

RECURSIVE visit_queries(_, _, _, _)
visit_queries(q, visits, max_new_sources, env) ==
    IF q > queries_per_run THEN visits
    ELSE visit_queries(q + 1,
             visit_results(Slice(env.results[q], results_per_query), 1,
                           visits, max_new_sources, env),
             max_new_sources, env)

\* SourceTracker(url=url) with the dataclass defaults
SourceTracker(url) ==
    [ url |-> url, last_scraped |-> None, contacts_found |-> 0,
      scrape_count |-> 0, status |-> "active" ]

\* the journal of a crawl: what discover_new_sources did, in order
Loaded(sources) == [op |-> "load_sources", sources |-> sources]
Fetched(kind, at, ok) == [op |-> "fetch", kind |-> kind, at |-> at, ok |-> ok]
Searched(q, results) ==
    [op |-> "fetch", kind |-> "search", at |-> q, results |-> results]
Slept(lo, hi) == [op |-> "sleep", lo |-> lo, hi |-> hi]
Saved(url, found, sources) ==
    [op |-> "save_sources", url |-> url, found |-> found, sources |-> sources]

\* next((s for s in self.sources if s.url == url), None), as a position
find_source(sources, url) ==
    IF \E j \in 1..Len(sources) : sources[j].url = url
    THEN CHOOSE j \in 1..Len(sources) :
             /\ sources[j].url = url
             /\ \A l \in 1..(j - 1) : sources[l].url # url
    ELSE 0

\* scrape_visit counting a visit only when the fetch succeeded
scrape_visit_counted_on_success(st, url, env, t) ==
    LET known == find_source(st.sources, url)
        listed == IF known = 0 THEN Append(st.sources, SourceTracker(url))
                  ELSE st.sources
        j == IF known = 0 THEN Len(listed) ELSE known
        fetched == env.fetch_ok[url]
        found == fetched /\ env.has_contact[url]
        counted == IF fetched
                   THEN [listed EXCEPT ![j].scrape_count = @ + 1,
                                       ![j].last_scraped = t]
                   ELSE listed
        credited == IF found THEN [counted EXCEPT ![j].contacts_found = @ + 1]
                    ELSE counted
        sources == IF fetched THEN credited ELSE [credited EXCEPT ![j].status = "error"]
    IN [ new_contacts |-> st.new_contacts \o scrape_music_site(url, env),
         sources |-> sources,
         journal |-> st.journal \o <<Fetched("page", url, fetched)>>
                        \o (IF fetched THEN <<Slept(1, 2)>> ELSE <<>>)
                        \o <<Saved(url, found, sources)>> ]

\* scrape_visit leaving the status of the tracker as it was when the fetch fails
scrape_visit_error_unmarked(st, url, env, t) ==
    LET known == find_source(st.sources, url)
        listed == IF known = 0 THEN Append(st.sources, SourceTracker(url))
                  ELSE st.sources
        j == IF known = 0 THEN Len(listed) ELSE known
        counted == [listed EXCEPT ![j].scrape_count = @ + 1,
                                  ![j].last_scraped = t]
        fetched == env.fetch_ok[url]
        found == fetched /\ env.has_contact[url]
        sources == IF found THEN [counted EXCEPT ![j].contacts_found = @ + 1]
                   ELSE counted
    IN [ new_contacts |-> st.new_contacts \o scrape_music_site(url, env),
         sources |-> sources,
         journal |-> st.journal \o <<Fetched("page", url, fetched)>>
                        \o (IF fetched THEN <<Slept(1, 2)>> ELSE <<>>)
                        \o <<Saved(url, found, sources)>> ]

\* one call of scrape_music_site with its effects: the tracker is found or
\* created and counted before the fetch, a contact found is credited, the
\* sleep follows a page that was read, a failure sets status error, and
\* save_sources ends the call
scrape_visit(st, url, env, t) ==
    LET known == find_source(st.sources, url)
        listed == IF known = 0 THEN Append(st.sources, SourceTracker(url))
                  ELSE st.sources
        j == IF known = 0 THEN Len(listed) ELSE known
        counted == [listed EXCEPT ![j].scrape_count = @ + 1,
                                  ![j].last_scraped = t]
        fetched == env.fetch_ok[url]
        found == fetched /\ env.has_contact[url]
        credited == IF found THEN [counted EXCEPT ![j].contacts_found = @ + 1]
                    ELSE counted
        sources == IF fetched THEN credited ELSE [credited EXCEPT ![j].status = "error"]
    IN [ new_contacts |-> st.new_contacts \o scrape_music_site(url, env),
         sources |-> sources,
         journal |-> st.journal \o <<Fetched("page", url, fetched)>>
                        \o (IF fetched THEN <<Slept(1, 2)>> ELSE <<>>)
                        \o <<Saved(url, found, sources)>> ]

\* the inner loop of discover_new_sources with its effects
RECURSIVE crawl_results(_, _, _, _, _, _)
crawl_results(results, k, st, max_new_sources, env, t) ==
    IF k > Len(results) THEN st
    ELSE LET visited == scrape_visit(st, results[k], env, t)
         IN IF Len(visited.new_contacts) >= max_new_sources THEN visited
            ELSE crawl_results(results, k + 1, visited, max_new_sources, env, t)

\* the outer loop of discover_new_sources with its effects: the search, the
\* visits, then the sleep between two queries
RECURSIVE crawl_queries(_, _, _, _, _)
crawl_queries(q, st, max_new_sources, env, t) ==
    IF q > queries_per_run THEN st
    ELSE LET searched ==
                 [st EXCEPT !.journal =
                      Append(@, Searched(q, env.results[q]))]
             visited ==
                 crawl_results(Slice(env.results[q], results_per_query), 1,
                               searched, max_new_sources, env, t)
             rested == [visited EXCEPT !.journal = Append(@, Slept(2, 4))]
         IN crawl_queries(q + 1, rested, max_new_sources, env, t)

\* discover_new_sources with its effects: the list it returns, self.sources
\* and the journal
crawl(cs, sources, max_new_sources, env, t) ==
    LET st == crawl_queries(1, [ new_contacts |-> <<>>, sources |-> sources,
                                 journal |-> <<Loaded(sources)>> ],
                            max_new_sources, env, t)
        existing_hashes == {cs[i].contact_hash : i \in 1..Len(cs)}
    IN [ returned |-> SelectSeq(st.new_contacts,
                                LAMBDA c : c.contact_hash \notin existing_hashes),
         sources |-> st.sources,
         journal |-> st.journal ]

\* discover_new_sources: what it returns
discover_new_sources(cs, max_new_sources, env) ==
    LET new_contacts == scrape_queries(1, <<>>, max_new_sources, env)
        existing_hashes == {cs[i].contact_hash : i \in 1..Len(cs)}
    IN SelectSeq(new_contacts, LAMBDA c : c.contact_hash \notin existing_hashes)

\* every list discover_new_sources can return, over the views of the web
discoveries(cs, max_new_sources) ==
    {discover_new_sources(cs, max_new_sources, env) : env \in WebEnvs}

\* the loop that appends the discovered contacts above the threshold
add_discovered(cs, new_contacts, threshold) ==
    cs \o SelectSeq(new_contacts, LAMBDA c : c.confidence_score >= threshold)

----------------------------------------------------------------------------
\* Search engines

\* submit_to_search_engines
submit_to_search_engines(cs, dry_run, t) ==
    [i \in 1..Len(cs) |->
        IF cs[i].type = "search_engine" /\ ~dry_run
        THEN [cs[i] EXCEPT !.status = "manual_submission_required",
                           !.contacted_date = t]
        ELSE cs[i]]

----------------------------------------------------------------------------
\* Sending

\* the outcome of a successful send_email for contact c
email_sent(c, t) ==
    LET counted == [c EXCEPT !.outreach_count = c.outreach_count + 1,
                             !.last_outreach = t]
    IN IF counted.outreach_count = 1
       THEN [counted EXCEPT !.status = "contacted", !.contacted_date = t]
       ELSE counted

\* email_failed counting the attempt all the same
email_failed_counted(c, t) ==
    [c EXCEPT !.outreach_count = c.outreach_count + 1, !.last_outreach = t]

\* the outcome of a send_email that returned False: the failure is logged
email_failed(c, t) == c

\* form_flagged leaving last_outreach as it was
form_flagged_undated(c, t) ==
    [c EXCEPT !.outreach_count = c.outreach_count + 1,
              !.status = "manual_submission_required",
              !.contacted_date = IF c.contacted_date = None THEN t
                                 ELSE c.contacted_date]

\* the else branch of send_outreach_emails: a contact form only
form_flagged(c, t) ==
    [c EXCEPT !.outreach_count = c.outreach_count + 1,
              !.last_outreach = t,
              !.status = "manual_submission_required",
              !.contacted_date = IF c.contacted_date = None THEN t
                                 ELSE c.contacted_date]

Entry(op, i, ok) == [op |-> op, i |-> i, ok |-> ok]

\* time.sleep(random.uniform(lo, hi)) after the k-th entry of the run
Pause(k, lo, hi) == [after |-> k, lo |-> lo, hi |-> hi]

----------------------------------------------------------------------------
\* The daily schedule (outreach_schedule.json)

Quota(type, percent) == [type |-> type, percent |-> percent]

\* create_daily_schedule: the schedule written when the file is missing;
\* target_distribution in the order of the dict, fractions in percent
create_daily_schedule ==
    [ enabled |-> TRUE, discovery_enabled |-> TRUE,
      max_contacts_per_day |-> daily_outreach_limit,
      target_distribution |->
          << Quota("publication", 40), Quota("influencer", 25),
             Quota("curator", 15), Quota("platform", 10),
             Quota("ai_service", 10) >> ]

\* schedule files an operator has edited
Schedules ==
    { create_daily_schedule,
      [ enabled |-> TRUE, discovery_enabled |-> FALSE,
        max_contacts_per_day |-> 1,
        target_distribution |-> <<Quota("publication", 100)>> ],
      [ enabled |-> TRUE, discovery_enabled |-> TRUE,
        max_contacts_per_day |-> 2,
        target_distribution |->
            <<Quota("curator", 50), Quota("platform", 50), Quota("publication", 40)>> ],
      [ enabled |-> TRUE, discovery_enabled |-> FALSE,
        max_contacts_per_day |-> 1,
        target_distribution |-> <<Quota("search_engine", 100)>> ],
      [ enabled |-> FALSE, discovery_enabled |-> TRUE,
        max_contacts_per_day |-> daily_outreach_limit,
        target_distribution |-> <<>> ] }

NoSchedule ==
    [ enabled |-> FALSE, discovery_enabled |-> FALSE,
      max_contacts_per_day |-> 0, target_distribution |-> <<>> ]

has_channel(c) == c.email # "" \/ c.contact_form_url # ""

\* type_limit rounding up
type_limit_ceiling(max_daily, percent) == (max_daily * percent + 99) \div 100

\* int(max_daily * percentage)
type_limit(max_daily, percent) == (max_daily * percent) \div 100

\* run_daily_outreach, lines 1206-1216: what one entry of the distribution
\* adds to all_prepared_emails
prepared_of_type(cs, quota, max_daily, t) ==
    IF type_limit(max_daily, quota.percent) > 0
    THEN LET eligible_contacts ==
                 sort_by_priority(cs, get_eligible_contacts(cs, {quota.type}, t))
             type_contacts ==
                 Slice(eligible_contacts, type_limit(max_daily, quota.percent))
         IN SelectSeq(type_contacts, LAMBDA i : has_channel(cs[i]))
    ELSE <<>>

RECURSIVE prepared_from(_, _, _, _, _)
prepared_from(cs, dist, k, max_daily, t) ==
    IF k > Len(dist) THEN <<>>
    ELSE prepared_of_type(cs, dist[k], max_daily, t)
         \o prepared_from(cs, dist, k + 1, max_daily, t)

\* run_daily_outreach, lines 1200-1216: all_prepared_emails
all_prepared_emails(cs, schedule, t) ==
    prepared_from(cs, schedule.target_distribution, 1,
                  schedule.max_contacts_per_day, t)

\* the lists interactive_preview_and_send can approve: every sub-list, in
\* order; the empty one is also what quitting or declining leaves
RECURSIVE approvals(_)
approvals(prepared) ==
    IF prepared = <<>> THEN {<<>>}
    ELSE LET rest == approvals(Tail(prepared))
         IN rest \cup {<<Head(prepared)>> \o r : r \in rest}

----------------------------------------------------------------------------
\* The command line

\* a --limit value above zero the model tries
MaxLimit == 1
\* runs of main() in one behaviour
MaxRuns == 1

TargetTypes == {"", "publication"}

Limits == 0..MaxLimit

Args(mode, dry_run, target_type, limit, interactive, schedule) ==
    [ mode |-> mode, dry_run |-> dry_run, target_type |-> target_type,
      limit |-> limit, interactive |-> interactive, schedule |-> schedule ]

NoArgs == Args("none", FALSE, "", 0, FALSE, NoSchedule)

----------------------------------------------------------------------------
\* State machine

Init ==
    /\ contacts_file \in {FileMissing, FileCorrupt} \cup {FileOf(s) : s \in InitStores}
    /\ contacts = <<>>
    /\ now = Now0
    /\ pc = "idle"
    /\ args = NoArgs
    /\ targets = <<>>
    /\ idx = 1
    /\ log = <<>>
    /\ runs = 0
    /\ slept = <<>>

\* a day passes between two runs
Tick ==
    /\ pc = "idle"
    /\ now < Now0 + MaxDays
    /\ now' = now + 1
    /\ UNCHANGED <<contacts_file, contacts, pc, args, targets, idx, log, runs, slept>>

\* the process of a finished run exits
Exit ==
    /\ pc = "done"
    /\ pc' = "idle"
    /\ contacts' = <<>>
    /\ args' = NoArgs
    /\ targets' = <<>>
    /\ idx' = 1
    /\ log' = <<>>
    /\ slept' = <<>>
    /\ UNCHANGED <<contacts_file, now, runs>>

\* main --init: the constructor, then initialize_contacts
MainInit ==
    /\ pc = "idle"
    /\ runs < MaxRuns
    /\ contacts' = contacts_data
    /\ contacts_file' = FileOf(contacts_data)
    /\ pc' = "done"
    /\ args' = [NoArgs EXCEPT !.mode = "init"]
    /\ runs' = runs + 1
    /\ UNCHANGED <<now, targets, idx, log, slept>>

\* main --discover: the constructor, discover_new_sources(10), the append
\* loop with the 0.5 threshold, save_contacts
MainDiscover ==
    /\ pc = "idle"
    /\ runs < MaxRuns
    /\ \E new_contacts \in discoveries(load_contacts(contacts_file), 10) :
       LET loaded == load_contacts(contacts_file)
           grown == add_discovered(loaded, new_contacts, 5)
       IN /\ Len(grown) <= MaxStore
          /\ contacts' = grown
          /\ contacts_file' = FileOf(grown)
    /\ pc' = "done"
    /\ args' = [NoArgs EXCEPT !.mode = "discover"]
    /\ runs' = runs + 1
    /\ UNCHANGED <<now, targets, idx, log, slept>>

\* the dry-run branch of the loop of send_outreach_emails: one entry per
\* target that is not skipped for want of a channel
dry_entries(cs, tg) ==
    [k \in 1..Len(tg) |->
        IF has_channel(cs[tg[k]]) THEN Entry("dry", tg[k], FALSE)
        ELSE Entry("skip", tg[k], FALSE)]

\* main without a mode flag: the constructor, submit_to_search_engines,
\* then send_outreach_emails up to its loop (discovery, eligibility, sort,
\* truncation); a dry run or an empty send list ends in the same step with
\* save_contacts
ManualBegin(dry_run, target_type, limit) ==
    /\ pc = "idle"
    /\ runs < MaxRuns
    /\ LET target_types == IF target_type = "" THEN {} ELSE {target_type}
           loaded == load_contacts(contacts_file)
           submitted ==
               IF target_types = {} \/ "search_engine" \in target_types
               THEN submit_to_search_engines(loaded, dry_run, now)
               ELSE loaded
       IN
       \E new_contacts \in IF ~dry_run THEN discoveries(submitted, 5) ELSE {<<>>} :
       LET grown == add_discovered(submitted, new_contacts, 6)
           tg == send_list(grown, target_types, limit, now)
       IN /\ Len(grown) <= MaxStore
          /\ contacts' = grown
          /\ targets' = tg
          /\ IF dry_run \/ tg = <<>>
             THEN /\ contacts_file' = FileOf(grown)
                  /\ log' = IF dry_run THEN dry_entries(grown, tg) ELSE <<>>
                  /\ pc' = "done"
             ELSE /\ contacts_file' = IF new_contacts # <<>> THEN FileOf(grown)
                                      ELSE load_contacts_file(contacts_file)
                  /\ log' = <<>>
                  /\ pc' = "send"
    /\ idx' = 1
    /\ args' = Args("manual", dry_run, target_type, limit, FALSE, NoSchedule)
    /\ runs' = runs + 1
    /\ slept' = <<>>
    /\ UNCHANGED now

\* one iteration of the loop of send_outreach_emails; the last one is
\* followed by save_contacts
SendStep ==
    /\ pc = "send"
    /\ LET i == targets[idx]
           c == contacts[i]
       IN /\ IF ~has_channel(c)
             THEN /\ contacts' = contacts
                  /\ log' = Append(log, Entry("skip", i, FALSE))
                  /\ slept' = slept
             ELSE IF c.email # ""
             THEN \E success \in BOOLEAN :
                  /\ contacts' = IF success
                                 THEN [contacts EXCEPT ![i] = email_sent(c, now)]
                                 ELSE [contacts EXCEPT ![i] = email_failed(c, now)]
                  /\ log' = Append(log, Entry("mail", i, success))
                  /\ slept' = Append(slept, Pause(Len(log'), 2, 5))
             ELSE /\ contacts' = [contacts EXCEPT ![i] = form_flagged(c, now)]
                  /\ log' = Append(log, Entry("form", i, TRUE))
                  /\ slept' = Append(slept, Pause(Len(log'), 2, 5))
          /\ idx' = idx + 1
          /\ IF idx = Len(targets)
             THEN /\ contacts_file' = save_contacts(contacts')
                  /\ pc' = "done"
             ELSE UNCHANGED <<contacts_file, pc>>
    /\ UNCHANGED <<now, args, targets, runs>>

\* main --daily / --interactive: the constructor, then run_daily_outreach
\* up to its sending loop (schedule, discovery, all_prepared_emails, and in
\* interactive mode the operator's approvals); main passes no limit on, so
\* --limit is parsed and left unused
DailyBegin(dry_run, interactive, limit, schedule) ==
    /\ pc = "idle"
    /\ runs < MaxRuns
    /\ LET loaded == load_contacts(contacts_file)
           loaded_file == load_contacts_file(contacts_file)
       IN
       IF ~schedule.enabled
       THEN /\ contacts' = loaded
            /\ contacts_file' = loaded_file
            /\ targets' = <<>>
            /\ pc' = "done"
       ELSE
       \E new_contacts \in IF schedule.discovery_enabled
                           THEN discoveries(loaded, 5) ELSE {<<>>} :
       LET grown == add_discovered(loaded, new_contacts, 6)
           discovered_file == IF new_contacts # <<>> THEN FileOf(grown)
                              ELSE loaded_file
           prepared == all_prepared_emails(grown, schedule, now)
       IN /\ Len(grown) <= MaxStore
          /\ contacts' = grown
          /\ IF dry_run
             THEN /\ targets' = prepared
                  /\ contacts_file' = discovered_file
                  /\ pc' = "done"
             ELSE IF interactive
             THEN \E approved_contacts \in approvals(prepared) :
                  /\ targets' = approved_contacts
                  /\ contacts_file' = discovered_file
                  /\ pc' = IF approved_contacts = <<>> THEN "done" ELSE "isend"
             ELSE /\ targets' = prepared
                  /\ IF prepared = <<>>
                     THEN /\ contacts_file' = FileOf(grown)
                          /\ pc' = "done"
                     ELSE /\ contacts_file' = discovered_file
                          /\ pc' = "asend"
    /\ idx' = 1
    /\ log' = <<>>
    /\ args' = Args("daily", dry_run, "", limit, interactive, schedule)
    /\ runs' = runs + 1
    /\ slept' = <<>>
    /\ UNCHANGED now

\* one iteration of the sending loop of interactive_preview_and_send; the
\* last one is followed by save_contacts
InteractiveSendStep ==
    /\ pc = "isend"
    /\ LET i == targets[idx]
           c == contacts[i]
       IN /\ IF c.email # ""
             THEN \E success \in BOOLEAN :
                  /\ contacts' = IF success
                                 THEN [contacts EXCEPT ![i] = email_sent(c, now)]
                                 ELSE [contacts EXCEPT ![i] = email_failed(c, now)]
                  /\ log' = Append(log, Entry("mail", i, success))
                  /\ slept' = Append(slept, Pause(Len(log'), 1, 3))
             ELSE /\ contacts' = contacts
                  /\ log' = Append(log, Entry("noemail", i, FALSE))
                  /\ slept' = slept
          /\ idx' = idx + 1
          /\ IF idx = Len(targets)
             THEN /\ contacts_file' = save_contacts(contacts')
                  /\ pc' = "done"
             ELSE UNCHANGED <<contacts_file, pc>>
    /\ UNCHANGED <<now, args, targets, runs>>

\* one iteration of the automated loop of run_daily_outreach; the last one
\* is followed by save_contacts
AutoSendStep ==
    /\ pc = "asend"
    /\ LET i == targets[idx]
           c == contacts[i]
       IN /\ IF c.email # ""
             THEN \E success \in BOOLEAN :
                  /\ contacts' = IF success
                                 THEN [contacts EXCEPT ![i] = email_sent(c, now)]
                                 ELSE [contacts EXCEPT ![i] = email_failed(c, now)]
                  /\ log' = Append(log, Entry("mail", i, success))
                  /\ slept' = Append(slept, Pause(Len(log'), 2, 5))
             ELSE /\ contacts' = contacts
                  /\ log' = Append(log, Entry("noemail", i, FALSE))
                  /\ slept' = slept
          /\ idx' = idx + 1
          /\ IF idx = Len(targets)
             THEN /\ contacts_file' = save_contacts(contacts')
                  /\ pc' = "done"
             ELSE UNCHANGED <<contacts_file, pc>>
    /\ UNCHANGED <<now, args, targets, runs>>

\* the process is killed inside a sending loop: what it held in memory is
\* gone, the store file is as the last save_contacts left it
Kill ==
    /\ pc \in {"send", "isend", "asend"}
    /\ pc' = "idle"
    /\ contacts' = <<>>
    /\ args' = NoArgs
    /\ targets' = <<>>
    /\ idx' = 1
    /\ log' = <<>>
    /\ slept' = <<>>
    /\ UNCHANGED <<contacts_file, now, runs>>

Next ==
    \/ Tick
    \/ Exit
    \/ Kill
    \/ MainInit
    \/ MainDiscover
    \/ \E dry_run \in BOOLEAN, target_type \in TargetTypes, limit \in Limits :
          ManualBegin(dry_run, target_type, limit)
    \/ SendStep
    \/ \E dry_run \in BOOLEAN, interactive \in BOOLEAN, limit \in Limits,
          schedule \in Schedules :
          DailyBegin(dry_run, interactive, limit, schedule)
    \/ InteractiveSendStep
    \/ AutoSendStep

Spec == Init /\ [][Next]_vars

----------------------------------------------------------------------------
\* Two runs that overlap: while the manual campaign of Spec is inside its
\* sending loop, a second process runs a whole manual campaign (load, send,
\* save) on the same store file

\* the lists a sending loop can leave in memory, over the outcomes of
\* send_email, with what it did
RECURSIVE loop_outcomes(_, _, _, _, _)
loop_outcomes(cs, tg, k, done, t) ==
    IF k > Len(tg) THEN {[contacts |-> cs, log |-> done]}
    ELSE LET i == tg[k]
             c == cs[i]
         IN IF ~has_channel(c)
            THEN loop_outcomes(cs, tg, k + 1, done, t)
            ELSE IF c.email # ""
            THEN loop_outcomes([cs EXCEPT ![i] = email_sent(c, t)], tg, k + 1,
                               Append(done, Entry("other", i, TRUE)), t)
                 \cup
                 loop_outcomes([cs EXCEPT ![i] = email_failed(c, t)], tg, k + 1,
                               Append(done, Entry("other", i, FALSE)), t)
            ELSE loop_outcomes([cs EXCEPT ![i] = form_flagged(c, t)], tg, k + 1,
                               Append(done, Entry("other", i, TRUE)), t)

\* the second process: main without a mode flag, from the constructor to
\* the save_contacts that ends send_outreach_emails
OtherRun ==
    /\ pc = "send"
    /\ runs <= MaxRuns
    /\ LET loaded == load_contacts(contacts_file)
           submitted == submit_to_search_engines(loaded, FALSE, now)
       IN \E new_contacts \in discoveries(submitted, 5) :
          LET grown == add_discovered(submitted, new_contacts, 6)
              tg == send_list(grown, {}, 0, now)
          IN /\ Len(grown) <= MaxStore
             /\ \E out \in loop_outcomes(grown, tg, 1, <<>>, now) :
                   /\ contacts_file' = save_contacts(out.contacts)
                   /\ log' = log \o out.log
    /\ runs' = runs + 1
    /\ UNCHANGED <<contacts, now, pc, args, targets, idx, slept>>

NextOverlap ==
    \/ Tick
    \/ Exit
    \/ \E target_type \in TargetTypes, limit \in Limits :
          ManualBegin(FALSE, target_type, limit)
    \/ SendStep
    \/ OtherRun

SpecOverlap == Init /\ [][NextOverlap]_vars

----------------------------------------------------------------------------
\* The eligibility filter and the two schedulers on their own: a store is
\* drawn, then one of them is called and its result kept in targets

\* a daily cap the schedule file can hold
MaxCap == 2

ScheduleTypes == {"publication", "curator", "platform"}

Quotas == {Quota(type, percent) : type \in ScheduleTypes, percent \in {50, 100}}

DistinctTypes(dist) == \A i, j \in 1..Len(dist) : dist[i].type = dist[j].type => i = j

\* a dict has one entry per key
Distributions == {d \in SeqsUpTo(Quotas, 2) : DistinctTypes(d)}

ScheduleInputs ==
    { [ enabled |-> TRUE, discovery_enabled |-> FALSE,
        max_contacts_per_day |-> cap, target_distribution |-> dist ] :
      cap \in 0..MaxCap, dist \in Distributions }
    \cup {create_daily_schedule}

InitSchedule ==
    /\ contacts_file \in {FileOf(s) : s \in InitStores}
    /\ contacts = load_contacts(contacts_file)
    /\ now = Now0
    /\ pc = "idle"
    /\ args = NoArgs
    /\ targets = <<>>
    /\ idx = 1
    /\ log = <<>>
    /\ runs = 0
    /\ slept = <<>>

\* get_eligible_contacts(target_types)
CallEligible(target_type) ==
    /\ pc = "idle"
    /\ targets' = get_eligible_contacts(
                      contacts, IF target_type = "" THEN {} ELSE {target_type}, now)
    /\ args' = Args("eligible", FALSE, target_type, 0, FALSE, NoSchedule)
    /\ pc' = "eligible"
    /\ UNCHANGED <<contacts_file, contacts, now, idx, log, runs, slept>>

\* lines 816-826 of send_outreach_emails
CallSendList(target_type, limit) ==
    /\ pc = "idle"
    /\ targets' = send_list(
                      contacts, IF target_type = "" THEN {} ELSE {target_type},
                      limit, now)
    /\ args' = Args("send_list", FALSE, target_type, limit, FALSE, NoSchedule)
    /\ pc' = "listed"
    /\ UNCHANGED <<contacts_file, contacts, now, idx, log, runs, slept>>

\* lines 1200-1216 of run_daily_outreach
CallPrepared(schedule) ==
    /\ pc = "idle"
    /\ targets' = all_prepared_emails(contacts, schedule, now)
    /\ args' = Args("prepared", FALSE, "", 0, FALSE, schedule)
    /\ pc' = "prepared"
    /\ UNCHANGED <<contacts_file, contacts, now, idx, log, runs, slept>>

NextSchedule ==
    \/ Tick
    \/ \E target_type \in TargetTypes \cup {"curator"} : CallEligible(target_type)
    \/ \E target_type \in TargetTypes, limit \in Limits :
          CallSendList(target_type, limit)
    \/ \E schedule \in ScheduleInputs : CallPrepared(schedule)

SpecSchedule == InitSchedule /\ [][NextSchedule]_vars

----------------------------------------------------------------------------
\* Discovery and the Contact record on their own: a store is drawn, then
\* one function is called; its result is kept in targets and what it did on
\* the way in log

\* the largest max_new_sources the model passes
MaxNew == 2

InitDiscovery ==
    /\ contacts_file \in {FileOf(s) : s \in InitStores}
    /\ contacts = load_contacts(contacts_file)
    /\ now = Now0
    /\ pc = "idle"
    /\ args = NoArgs
    /\ targets = <<>>
    /\ idx = 1
    /\ log = <<>>
    /\ runs = 0
    /\ slept = <<>>

\* discover_new_sources(max_new_sources)
CallDiscover(max_new_sources, env) ==
    /\ pc = "idle"
    /\ targets' = discover_new_sources(contacts, max_new_sources, env)
    /\ log' = visit_queries(1, <<>>, max_new_sources, env)
    /\ args' = Args("discover_new_sources", FALSE, "", max_new_sources, FALSE, NoSchedule)
    /\ pc' = "discovered"
    /\ UNCHANGED <<contacts_file, contacts, now, idx, runs, slept>>

\* save_contacts, then load_contacts in a new process
CallSaveLoad ==
    /\ pc = "idle"
    /\ contacts_file' = save_contacts(contacts)
    /\ targets' = load_contacts(contacts_file')
    /\ args' = [NoArgs EXCEPT !.mode = "save_load"]
    /\ pc' = "reloaded"
    /\ UNCHANGED <<contacts, now, idx, log, runs, slept>>

\* what two sites or two records can give the constructor
Names == {"Pitchfork", "PITCHFORK"}
Websites == {"", "https://XLR8R.com", "https://xlr8r.com"}
Emails == {"", "tips@pitchfork.com", "TIPS@pitchfork.com"}

\* Contact(name, "publication", email=..., website=...), twice
CallPostInit(name1, website1, email1, name2, website2, email2) ==
    /\ pc = "idle"
    /\ targets' = << Contact(name1, "publication", email1, website1, "", 5),
                     Contact(name2, "publication", email2, website2, "", 5) >>
    /\ args' = [NoArgs EXCEPT !.mode = "post_init"]
    /\ pc' = "constructed"
    /\ UNCHANGED <<contacts_file, contacts, now, idx, log, runs, slept>>

TextInputs == {Indicators(a, b, c, d, e, f) : a, b, c, d, e, f \in BOOLEAN}

\* calculate_confidence_score(soup, url) on a page with the given text
CallConfidence(text) ==
    /\ pc = "idle"
    /\ targets' = <<calculate_confidence_score(text)>>
    /\ log' = <<text>>
    /\ args' = [NoArgs EXCEPT !.mode = "confidence"]
    /\ pc' = "scored"
    /\ UNCHANGED <<contacts_file, contacts, now, idx, runs, slept>>

NextDiscovery ==
    \/ CallSaveLoad
    \/ \E name1, name2 \in Names, website1, website2 \in Websites,
          email1, email2 \in Emails :
          CallPostInit(name1, website1, email1, name2, website2, email2)
    \/ \E text \in TextInputs : CallConfidence(text)
    \/ \E max_new_sources \in 1..MaxNew, env \in WebEnvs :
          CallDiscover(max_new_sources, env)

SpecDiscovery == InitDiscovery /\ [][NextDiscovery]_vars

----------------------------------------------------------------------------
\* discover_new_sources with the source trackers: the list returned is kept
\* in targets, the journal of the call in log

\* outreach_sources.json as earlier runs left it
InitSources ==
    { <<>>,
      << [SourceTracker("https://XLR8R.com") EXCEPT
              !.scrape_count = 2, !.contacts_found = 1,
              !.last_scraped = Now0 - 1] >>,
      << [SourceTracker("https://lofiweekly.net") EXCEPT
              !.scrape_count = 1, !.last_scraped = Now0 - 1,
              !.status = "error"] >> }

InitCrawl ==
    /\ contacts_file \in {FileOf(s) : s \in {s \in InitStores : Len(s) <= 1}}
    /\ contacts = load_contacts(contacts_file)
    /\ now = Now0
    /\ pc = "idle"
    /\ args = NoArgs
    /\ targets = <<>>
    /\ idx = 1
    /\ log = <<>>
    /\ runs = 0
    /\ slept = <<>>

\* load_sources in the constructor, then discover_new_sources
CallCrawl(sources, max_new_sources, env) ==
    /\ pc = "idle"
    /\ LET done == crawl(contacts, sources, max_new_sources, env, now)
       IN /\ targets' = done.returned
          /\ log' = done.journal
    /\ args' = Args("crawl", FALSE, "", max_new_sources, FALSE, NoSchedule)
    /\ pc' = "crawled"
    /\ UNCHANGED <<contacts_file, contacts, now, idx, runs, slept>>

NextCrawl ==
    \/ \E sources \in InitSources, max_new_sources \in 1..MaxNew,
          env \in CrawlEnvs :
          CallCrawl(sources, max_new_sources, env)

SpecCrawl == InitCrawl /\ [][NextCrawl]_vars

----------------------------------------------------------------------------
\* scripts/email_opt_out.py, EmailOptOutManager on its own: is_opted_out is
\* called on an opt-out file; the call is kept in args, its result in targets

\* the most records of an opt-out file
MaxOptOuts == 2

\* str.strip() on the strings of the model
Strip(s) ==
    CASE s = " fan@example.com " -> "fan@example.com"
      [] OTHER -> s

\* a record of "opt_outs", and one that lacks the "email" key
OptOutRecord(email, email_types) == [email |-> email, email_types |-> email_types]

NoEmailRecord == [email_types |-> <<"all_emails">>]

OptOutRecords ==
    { OptOutRecord(email, email_types) :
          email \in {"fan@example.com", "dj@example.com"},
          email_types \in {<<>>, <<"all_emails">>, <<"outreach">>} }
    \cup {NoEmailRecord}

\* the JSON document of an opt-out file: the structure _save_opt_outs writes
OptOuts(records) == [opt_outs |-> records]

\* a JSON document that parses and has no "opt_outs" key
NotOptOuts == [metadata |-> "1.0"]

\* the opt-out file when is_opted_out is called: deleted since the
\* constructor made it, not valid JSON (or not readable), or a document
OptOutFiles ==
    { [state |-> "missing"], [state |-> "corrupt"],
      [state |-> "ok", data |-> NotOptOuts] }
    \cup { [state |-> "ok", data |-> OptOuts(records)] :
               records \in SeqsUpTo(OptOutRecords, MaxOptOuts) }

\* _load_opt_outs: the document of the file, or an empty structure when
\* open or json.load raises
_load_opt_outs(file) ==
    IF file.state = "ok" THEN file.data ELSE OptOuts(<<>>)

\* the loop of is_opted_out from record k on; a record without "email"
\* raises KeyError, which the handler of is_opted_out turns into True
RECURSIVE opted_out_from(_, _, _, _)
opted_out_from(records, k, email, email_type) ==
    IF k > Len(records) THEN FALSE
    ELSE IF "email" \notin DOMAIN records[k] THEN TRUE
    ELSE IF records[k].email = email
    THEN LET opted_out_types ==
                 IF "email_types" \in DOMAIN records[k]
                 THEN Range(records[k].email_types) ELSE {}
         IN IF "all_emails" \in opted_out_types THEN TRUE
            ELSE IF email_type # "" /\ email_type \in opted_out_types THEN TRUE
            ELSE IF email_type = "" /\ opted_out_types # {} THEN TRUE
            ELSE opted_out_from(records, k + 1, email, email_type)
    ELSE opted_out_from(records, k + 1, email, email_type)

\* is_opted_out(email, email_type); email_type None is ""
is_opted_out(file, email, email_type) ==
    LET data == _load_opt_outs(file)
    IN IF "opt_outs" \notin DOMAIN data THEN TRUE
       ELSE opted_out_from(data.opt_outs, 1, Strip(Lower(email)), email_type)

InitOptOut ==
    /\ contacts_file = FileMissing
    /\ contacts = <<>>
    /\ now = Now0
    /\ pc = "idle"
    /\ args = NoArgs
    /\ targets = <<>>
    /\ idx = 1
    /\ log = <<>>
    /\ runs = 0
    /\ slept = <<>>

CallIsOptedOut(file, email, email_type) ==
    /\ pc = "idle"
    /\ args' = [opt_out_file |-> file, email |-> email, email_type |-> email_type]
    /\ targets' = <<is_opted_out(file, email, email_type)>>
    /\ pc' = "checked"
    /\ UNCHANGED <<contacts_file, contacts, now, idx, log, runs, slept>>

NextOptOut ==
    \E file \in OptOutFiles,
       email \in {"fan@example.com", " Fan@Example.com ", "new@example.com"},
       email_type \in {"", "outreach", "news"} :
        CallIsOptedOut(file, email, email_type)

SpecOptOut == InitOptOut /\ [][NextOptOut]_vars

----------------------------------------------------------------------------
\* Properties

Positions == 1..Len(contacts)

Listed(i) == \E k \in 1..Len(targets) : targets[k] = i

TypeAsked(c) == args.target_type = "" \/ c.type = args.target_type

UnderCap(c) == c.outreach_count < max_outreach_per_contact

IntervalOver(c) ==
    c.last_outreach = None \/ now - c.last_outreach >= min_outreach_interval

StatusOpen(c) ==
    c.status \in {"pending", "contacted", "manual_submission_required"}

\* C1: get_eligible_contacts(target_types) returns exactly the contacts of
\* the store for which all four conditions hold (type asked for, under the
\* attempt cap, interval over, status pending / contacted /
\* manual_submission_required), each once
C1_EligibleExactly ==
    pc = "eligible" =>
        /\ \A i \in Positions :
              Listed(i) <=> /\ TypeAsked(contacts[i])
                            /\ UnderCap(contacts[i])
                            /\ IntervalOver(contacts[i])
                            /\ StatusOpen(contacts[i])
        /\ \A k, l \in 1..Len(targets) : targets[k] = targets[l] => k = l
        /\ \A k \in 1..Len(targets) : targets[k] \in Positions

\* a curator that is otherwise eligible is left out of a publication query
\* that returns something
C1_Witness ==
    /\ pc = "eligible"
    /\ args.target_type = "publication"
    /\ targets # <<>>
    /\ \E i \in Positions :
          /\ contacts[i].type = "curator"
          /\ UnderCap(contacts[i]) /\ IntervalOver(contacts[i])
          /\ StatusOpen(contacts[i])
          /\ ~Listed(i)

\* C2: a contact with outreach_count = max_outreach_per_contact is never
\* returned; one with max_outreach_per_contact - 1 that passes the type,
\* interval and status rules is returned
C2_AttemptCapBoundary ==
    pc = "eligible" =>
        \A i \in Positions :
            /\ contacts[i].outreach_count = max_outreach_per_contact => ~Listed(i)
            /\ ( /\ contacts[i].outreach_count = max_outreach_per_contact - 1
                 /\ TypeAsked(contacts[i]) /\ IntervalOver(contacts[i])
                 /\ StatusOpen(contacts[i]) ) => Listed(i)

\* both sides of the cap in one call: a record at the cap that passes the
\* other rules is left out, a record one below the cap is returned
C2_Witness ==
    /\ pc = "eligible"
    /\ \E i, j \in Positions :
          /\ contacts[i].outreach_count = max_outreach_per_contact
          /\ TypeAsked(contacts[i]) /\ IntervalOver(contacts[i])
          /\ StatusOpen(contacts[i])
          /\ ~Listed(i)
          /\ contacts[j].outreach_count = max_outreach_per_contact - 1
          /\ Listed(j)

\* C3: a contact last contacted exactly min_outreach_interval days ago is
\* eligible, one last contacted min_outreach_interval - 1 days ago is not,
\* the other rules being passed
C3_IntervalBoundary ==
    pc = "eligible" =>
        \A i \in Positions :
            ( /\ TypeAsked(contacts[i]) /\ UnderCap(contacts[i])
              /\ StatusOpen(contacts[i]) /\ contacts[i].last_outreach # None )
            => /\ now - contacts[i].last_outreach = min_outreach_interval
                      => Listed(i)
               /\ now - contacts[i].last_outreach = min_outreach_interval - 1
                      => ~Listed(i)

\* both sides of the interval in one call
C3_Witness ==
    /\ pc = "eligible"
    /\ \E i, j \in Positions :
          /\ contacts[i].last_outreach = now - min_outreach_interval
          /\ Listed(i)
          /\ contacts[j].last_outreach = now - (min_outreach_interval - 1)
          /\ TypeAsked(contacts[j]) /\ UnderCap(contacts[j])
          /\ StatusOpen(contacts[j])
          /\ ~Listed(j)

\* C4: a contact with neither an email nor a contact_form_url is never in
\* the result of get_eligible_contacts and never holds a place of the
\* truncated send list
C4_NoChannelNeverListed ==
    pc \in {"eligible", "listed"} =>
        \A k \in 1..Len(targets) : has_channel(contacts[targets[k]])

\* the persisted count of every identity that is in the store before and
\* after a step does not go down, and neither does a record's count in memory
CountsKept(before, after) ==
    \A i \in 1..Len(before), j \in 1..Len(after) :
        before[i].contact_hash = after[j].contact_hash
            => after[j].outreach_count >= before[i].outreach_count

\* C5: for every contact identity, outreach_count (in memory and as
\* persisted) never decreases across any sequence of operations
C5_CountersMonotonic ==
    [][ /\ CountsKept(contacts_file.data, contacts_file'.data)
        /\ (pc # "idle" /\ pc' # "idle") => CountsKept(contacts, contacts') ]_vars

\* the moves of the lattice pending -> {contacted,
\* manual_submission_required} -> responded, rejected from anywhere
StatusMove(s, t) ==
    \/ s = t
    \/ t = "rejected"
    \/ s = "pending" /\ t \in {"contacted", "manual_submission_required", "responded"}
    \/ s \in {"contacted", "manual_submission_required"} /\ t = "responded"

\* the list in memory before a step: what the constructor loads when the
\* step starts a run
InMemory == IF pc = "idle" THEN load_contacts(contacts_file) ELSE contacts

\* C6: every status change made by send_outreach_emails,
\* run_daily_outreach, interactive_preview_and_send or
\* submit_to_search_engines follows the lattice; a rejected contact keeps
\* its status and a responded one does not move back
C6_StatusLattice ==
    [][ args'.mode \in {"manual", "daily"} =>
            \A i \in 1..Len(InMemory) :
                i <= Len(contacts') =>
                    StatusMove(InMemory[i].status, contacts'[i].status) ]_vars

\* C7: no two records of the store share a fingerprint
C7_UniqueFingerprints ==
    \A i, j \in 1..Len(contacts_file.data) :
        contacts_file.data[i].contact_hash = contacts_file.data[j].contact_hash
            => i = j

MailCalls(l) == {k \in 1..Len(l) : l[k].op = "mail"}

\* C8: with --dry-run a run of manual campaign or daily run sends nothing
\* and changes neither the persisted store nor the list in memory
C8_DryRunChangesNothing ==
    [][ (pc = "idle" /\ args'.dry_run /\ contacts_file.state = "ok") =>
            /\ contacts_file' = contacts_file
            /\ contacts' = load_contacts(contacts_file)
            /\ MailCalls(log') = {} ]_vars

\* the order of the sort: a lower (outreach_count, -confidence_score) goes
\* first, an equal one keeps the store order
RanksBefore(j, i) ==
    \/ contacts[j].outreach_count < contacts[i].outreach_count
    \/ /\ contacts[j].outreach_count = contacts[i].outreach_count
       /\ contacts[j].confidence_score > contacts[i].confidence_score
    \/ /\ contacts[j].outreach_count = contacts[i].outreach_count
       /\ contacts[j].confidence_score = contacts[i].confidence_score
       /\ j < i

\* eligible for a query of one type
EligibleOfType(i, type) ==
    /\ contacts[i].type = type
    /\ UnderCap(contacts[i]) /\ IntervalOver(contacts[i]) /\ StatusOpen(contacts[i])

\* the eligible contacts of i's type that the sort puts before i
AheadOf(i) ==
    {j \in Positions : EligibleOfType(j, contacts[i].type) /\ RanksBefore(j, i)}

Distribution == args.schedule.target_distribution

Floor(type) ==
    LET q == CHOOSE q \in Range(Distribution) : q.type = type
    IN (args.schedule.max_contacts_per_day * q.percent) \div 100

InDistribution(type) == \E q \in Range(Distribution) : q.type = type

\* C9: with a distribution, the daily schedule holds for each type of the
\* distribution at most floor(dailyCap * fraction) contacts, all of them
\* among the top floor(dailyCap * fraction) eligible contacts of the type
\* in the (outreach_count ascending, confidence_score descending) order
\* and every such contact that has a channel; it holds no contact of a type
\* the distribution lacks; of two same-type contacts with count 0 and
\* confidence 0.9 and 0.5, cap 1 and fraction 1.0, the 0.9 one is selected
C9_DailyQuota ==
    pc = "prepared" =>
        /\ \A q \in Range(Distribution) :
              Cardinality({k \in 1..Len(targets) : contacts[targets[k]].type = q.type})
                  <= Floor(q.type)
        /\ \A k \in 1..Len(targets) :
              /\ targets[k] \in Positions
              /\ InDistribution(contacts[targets[k]].type)
              /\ EligibleOfType(targets[k], contacts[targets[k]].type)
              /\ Cardinality(AheadOf(targets[k])) < Floor(contacts[targets[k]].type)
        /\ \A i \in Positions :
              ( /\ InDistribution(contacts[i].type)
                /\ EligibleOfType(i, contacts[i].type)
                /\ Cardinality(AheadOf(i)) < Floor(contacts[i].type)
                /\ has_channel(contacts[i]) ) => Listed(i)
        /\ \A k, l \in 1..Len(targets) : targets[k] = targets[l] => k = l
        /\ \A i, j \in Positions :
              ( /\ args.schedule.max_contacts_per_day = 1
                /\ Distribution = <<Quota(contacts[i].type, 100)>>
                /\ EligibleOfType(i, contacts[i].type)
                /\ EligibleOfType(j, contacts[i].type)
                /\ contacts[i].outreach_count = 0 /\ contacts[j].outreach_count = 0
                /\ contacts[i].confidence_score = 9
                /\ contacts[j].confidence_score = 5
                /\ has_channel(contacts[i]) ) => targets = <<i>>

\* Scenario A with the 0.5 contact first in the store: the 0.9 contact is
\* the one scheduled
C9_Witness ==
    /\ pc = "prepared"
    /\ args.schedule.max_contacts_per_day = 1
    /\ Distribution = <<Quota("publication", 100)>>
    /\ Len(contacts) = 2
    /\ contacts[1].type = "publication" /\ contacts[2].type = "publication"
    /\ contacts[1].outreach_count = 0 /\ contacts[2].outreach_count = 0
    /\ contacts[1].confidence_score = 5 /\ contacts[2].confidence_score = 9
    /\ targets = <<2>>

Eligible(i) ==
    /\ TypeAsked(contacts[i]) /\ UnderCap(contacts[i])
    /\ IntervalOver(contacts[i]) /\ StatusOpen(contacts[i])

\* C10: the send list is the eligible list in ascending outreach_count,
\* then descending confidence_score, ties in store order, cut to its first
\* places; and the contacts are processed in exactly the order of the list
\* (per type in the daily run)
C10_SendOrder ==
    /\ (args.mode = "manual" /\ idx = 1) =>
          /\ \A k \in 1..Len(targets) : targets[k] \in Positions /\ Eligible(targets[k])
          /\ \A k, l \in 1..Len(targets) :
                k < l => RanksBefore(targets[k], targets[l])
          /\ \A i \in Positions :
                (Eligible(i) /\ ~Listed(i)) =>
                    \A k \in 1..Len(targets) : RanksBefore(targets[k], i)
    /\ (args.mode = "daily" /\ idx = 1) =>
          \A k, l \in 1..Len(targets) :
              (k < l /\ contacts[targets[k]].type = contacts[targets[l]].type)
                  => RanksBefore(targets[k], targets[l])
    /\ args.mode \in {"manual", "daily"} =>
          /\ Len(log) <= Len(targets)
          /\ \A k \in 1..Len(log) : log[k].i = targets[k]

\* two contacts were processed in the order of the sort, which is not the
\* order of the store
C10_Witness ==
    /\ args.mode = "manual"
    /\ pc = "done"
    /\ ~args.dry_run
    /\ Len(log) = 2
    /\ log[1].i > log[2].i

\* the bound of a run: the --limit given, the daily cap without one
ApplicableBound == IF args.limit # 0 THEN args.limit ELSE daily_outreach_limit

\* C11: with a per-call limit n (send_outreach_emails(limit=n), --limit n,
\* also together with --daily) the schedule holds at most n contacts in
\* total whatever the distribution says; without a limit and a distribution
\* it holds at most daily_outreach_limit; the contacts attempted in a run
\* never exceed that bound
C11_PerCallLimit ==
    /\ (args.mode = "manual" \/ (args.mode = "daily" /\ args.limit # 0)) =>
          /\ Len(targets) <= ApplicableBound
          /\ Len(log) <= ApplicableBound
    /\ (args.mode = "manual" /\ idx = 1) =>
          \A i \in Positions :
              (Eligible(i) /\ ~Listed(i)) => Len(targets) = ApplicableBound

\* the step is one iteration of a sending loop that handled contact i
Handled(op, i, ok) == log' = Append(log, Entry(op, i, ok))

\* C12: on every sending path a successful send to a contact with an email
\* adds exactly one to outreach_count and sets last_outreach to now; when
\* the count becomes 1 the status becomes contacted and contacted_date is
\* set to now only if it was unset, a date already set being kept
C12_EmailSuccess ==
    [][ \A i \in Positions :
            Handled("mail", i, TRUE) =>
                /\ contacts'[i].outreach_count = contacts[i].outreach_count + 1
                /\ contacts'[i].last_outreach = now
                /\ contacts'[i].outreach_count = 1 =>
                       /\ contacts'[i].status = "contacted"
                       /\ contacts'[i].contacted_date =
                              IF contacts[i].contacted_date = None THEN now
                              ELSE contacts[i].contacted_date ]_vars

\* C13: a send_email that fails leaves the contact's outreach_count,
\* last_outreach, status and contacted_date as they were, the loop goes on
\* to the next scheduled contact (a run that sends ends with every
\* scheduled contact handled), and the contact still passes the
\* eligibility rules afterwards
C13_FailedSendIsLocal ==
    [][ /\ \A i \in Positions :
              Handled("mail", i, FALSE) =>
                  /\ contacts'[i].outreach_count = contacts[i].outreach_count
                  /\ contacts'[i].last_outreach = contacts[i].last_outreach
                  /\ contacts'[i].status = contacts[i].status
                  /\ contacts'[i].contacted_date = contacts[i].contacted_date
                  /\ idx' = idx + 1
                  /\ idx < Len(targets) => pc' = pc
                  /\ eligible_one(contacts'[i], {}, now - min_outreach_interval)
        /\ (pc \in {"send", "isend", "asend"} /\ pc' = "done") =>
              Len(log') = Len(targets) ]_vars

\* a batch of two in which the first mail failed and the second was sent
C13_Witness ==
    /\ pc = "done"
    /\ Len(log) = 2
    /\ log[1].op = "mail" /\ ~log[1].ok
    /\ log[2].op = "mail" /\ log[2].ok
    /\ contacts[log[1].i].outreach_count = 0
    /\ contacts[log[1].i].last_outreach = None
    /\ contacts[log[2].i].outreach_count = 1

FormOnly(c) == c.email = "" /\ c.contact_form_url # ""

\* C14: on every sending path a scheduled contact with a contact form and
\* no email gets outreach_count + 1, last_outreach = now, status
\* manual_submission_required and contacted_date = now when it was unset,
\* and send_email is not called for it
C14_FormOnlyFlagged ==
    [][ \A i \in Positions, op \in {"mail", "form", "noemail", "skip"}, ok \in BOOLEAN :
            (Handled(op, i, ok) /\ FormOnly(contacts[i])) =>
                /\ op # "mail"
                /\ contacts'[i].outreach_count = contacts[i].outreach_count + 1
                /\ contacts'[i].last_outreach = now
                /\ contacts'[i].status = "manual_submission_required"
                /\ contacts'[i].contacted_date =
                       IF contacts[i].contacted_date = None THEN now
                       ELSE contacts[i].contacted_date ]_vars

\* C15: discover_new_sources(max_new_sources = n) returns at most n
\* contacts, none with a fingerprint the store already holds, and visits no
\* further URL of any query once n candidates have been produced
C15_DiscoveryStopsAtMax ==
    pc = "discovered" =>
        /\ Len(targets) <= args.limit
        /\ \A k \in 1..Len(targets), i \in Positions :
              targets[k].contact_hash # contacts[i].contact_hash
        /\ \A k \in 1..Len(log) : Found(SubSeq(log, 1, k - 1)) < args.limit

\* C16: when the store is unreadable at load the run fails: nothing is
\* discovered into the list, nothing is sent, and the store is not saved,
\* so the unreadable file is never replaced (--init, which is asked to
\* rewrite the store, apart)
C16_UnreadableStoreIsFatal ==
    [][ (contacts_file.state = "corrupt" /\ args'.mode # "init") =>
            /\ contacts_file' = contacts_file
            /\ contacts' = <<>>
            /\ log' = <<>> ]_vars

Fingerprint(c) == post_init_hash(c.name, c.website, c.email)

\* C17: save_contacts followed by load_contacts gives back every contact
\* with the same field values, in the same order; a contact_hash present
\* in a record is kept by the load even when name, website and email no
\* longer give that value, and it is computed only for a record without one
C17_SaveLoadRoundTrip ==
    /\ pc = "reloaded" =>
          /\ Len(targets) = Len(contacts)
          /\ \A i \in Positions : targets[i] = contacts[i]
    /\ pc \in {"idle", "reloaded"} =>
          /\ Len(contacts) = Len(contacts_file.data)
          /\ \A i \in Positions :
                contacts[i].contact_hash =
                    IF contacts_file.data[i].contact_hash = <<>>
                    THEN Fingerprint(contacts_file.data[i])
                    ELSE contacts_file.data[i].contact_hash

\* a record whose fingerprint is not the one its fields give came back
\* from the file as it was, next to a record whose fingerprint was computed
\* at the first load
C17_Witness ==
    /\ pc = "reloaded"
    /\ targets = contacts
    /\ Len(contacts) = 2
    /\ \E i, j \in Positions :
          /\ targets[i].contact_hash # Fingerprint(targets[i])
          /\ targets[j].name = "Earmilk"
          /\ targets[j].contact_hash = Fingerprint(targets[j])

\* spellings of one string that differ in the case of letters only
CaseVariants ==
    { {"Pitchfork", "PITCHFORK"},
      {"https://XLR8R.com", "https://xlr8r.com"},
      {"tips@pitchfork.com", "TIPS@pitchfork.com"} }

SameButCase(a, b) == a = b \/ \E v \in CaseVariants : a \in v /\ b \in v

\* website, or email when there is no website, or empty
Site(c) == IF c.website # "" THEN c.website ELSE c.email

\* C18: the fingerprint is a function of the name and of the website (the
\* email when there is no website), without regard to case: two contacts
\* whose name and website differ at most in the case of letters have the
\* same fingerprint, and so have two contacts built from the same inputs
C18_FingerprintIgnoresCase ==
    pc = "constructed" =>
        ( ( /\ SameButCase(targets[1].name, targets[2].name)
            /\ SameButCase(Site(targets[1]), Site(targets[2])) )
          => targets[1].contact_hash = targets[2].contact_hash )

\* two contacts whose name and website are spelled in different case, and
\* whose emails differ, have one fingerprint
C18_Witness ==
    /\ pc = "constructed"
    /\ targets[1].name = "Pitchfork" /\ targets[2].name = "PITCHFORK"
    /\ targets[1].website = "https://XLR8R.com"
    /\ targets[2].website = "https://xlr8r.com"
    /\ targets[1].email # targets[2].email
    /\ targets[1].contact_hash = targets[2].contact_hash

Tenths(b, n) == IF b THEN n ELSE 0

\* C19: calculate_confidence_score is 0.5 + 0.3 (submission keyword)
\* + 0.2 (genre keyword) + 0.1 (independent keyword) + 0.1 (contact)
\* - 0.1 (mainstream keyword) - 0.1 (text under 500 characters), brought
\* into [0.0, 1.0], for every combination of the six; with the first,
\* second and fourth present, none negative and 600 characters it is 1.0
C19_ConfidenceScore ==
    pc = "scored" =>
        LET text == log[1]
            sum == 5 + Tenths(text.submission, 3) + Tenths(text.genre, 2)
                     + Tenths(text.independent, 1) + Tenths(text.contact, 1)
                     - Tenths(text.mainstream, 1) - Tenths(text.short, 1)
        IN /\ targets[1] = IF sum > 10 THEN 10 ELSE IF sum < 0 THEN 0 ELSE sum
           /\ targets[1] >= 0 /\ targets[1] <= 10
           /\ text = Indicators(TRUE, TRUE, FALSE, TRUE, FALSE, FALSE)
                  => targets[1] = 10

\* Scenario B: 0.5 + 0.3 + 0.2 + 0.1 is cut to 1.0
C19_Witness ==
    /\ pc = "scored"
    /\ log[1] = Indicators(TRUE, TRUE, FALSE, TRUE, FALSE, FALSE)
    /\ targets = <<10>>

Dated(cs) ==
    \A i \in 1..Len(cs) : cs[i].outreach_count >= 1 => cs[i].last_outreach # None

\* C20: a step that raises a contact's outreach_count sets its
\* last_outreach to the current time in the same step; so in every state a
\* contact with outreach_count >= 1, in memory or in the store, has
\* last_outreach set
C20_CountedIsDated ==
    [][ /\ \A i \in Positions :
              ( /\ i <= Len(contacts')
                /\ contacts'[i].outreach_count > contacts[i].outreach_count )
              => contacts'[i].last_outreach = now
        /\ Dated(contacts) /\ Dated(contacts_file.data)
        /\ Dated(contacts') /\ Dated(contacts_file'.data) ]_vars

\* a run that counted a first attempt for a contact by mail and for
\* another by its contact form, both dated with the day of the run
C20_Witness ==
    /\ pc = "done"
    /\ \E i, j \in Positions :
          /\ \E k \in 1..Len(log) : log[k] = Entry("mail", i, TRUE)
          /\ \E k \in 1..Len(log) : log[k] = Entry("form", j, TRUE)
          /\ contacts[i].outreach_count = 1 /\ contacts[i].last_outreach = now
          /\ contacts[j].outreach_count = 1 /\ contacts[j].last_outreach = now
          /\ contacts_file.data[j].last_outreach = now

\* the store holds the record at place i with the counters it has in memory
Persisted(i) ==
    /\ i <= Len(contacts_file.data)
    /\ contacts_file.data[i].outreach_count = contacts[i].outreach_count
    /\ contacts_file.data[i].last_outreach = contacts[i].last_outreach
    /\ contacts_file.data[i].status = contacts[i].status

\* C21: when a run is killed inside a send batch, the outreach_count,
\* last_outreach and status of every contact it had already sent to are in
\* the persisted store
C21_ProgressSurvivesKill ==
    [][ (pc \in {"send", "isend", "asend"} /\ pc' = "idle") =>
            \A k \in 1..Len(log) : log[k].ok => Persisted(log[k].i) ]_vars

OwnEntries == {k \in 1..Len(log) : log[k].op # "other"}

\* C22: two overlapping runs each load the whole store, change their own
\* list and save the whole list, with no lock and no version check: the
\* save that ends a run writes that run's list whatever the file holds by
\* then, so a run that saved in between can lose its updates
C22_LastSaveWins ==
    [][ (pc = "send" /\ pc' = "done") =>
            /\ Len(contacts_file'.data) = Len(contacts')
            /\ \A i \in 1..Len(contacts') : contacts_file'.data[i] = contacts'[i] ]_vars

\* the second run mailed a contact and saved the count; the first run,
\* which had loaded before and did not touch that contact, saved after:
\* the store has the contact with no attempt at all
C22_Witness ==
    /\ pc = "done"
    /\ \E k \in 1..Len(log), i \in Positions :
          /\ log[k] = Entry("other", i, TRUE)
          /\ \A l \in OwnEntries : log[l].i # i
          /\ contacts[i].email # ""
          /\ contacts_file.data[i].outreach_count = 0
          /\ contacts_file.data[i].last_outreach = None

IsPage(e) == e.op = "fetch" /\ e.kind = "page"

IsSearch(e) == e.op = "fetch" /\ e.kind = "search"

\* the place of the next search after place p of the journal, or its end
NextSearch(p) ==
    IF \E k \in (p + 1)..Len(log) : IsSearch(log[k])
    THEN CHOOSE k \in (p + 1)..Len(log) :
             /\ IsSearch(log[k])
             /\ \A l \in (p + 1)..(k - 1) : ~IsSearch(log[l])
    ELSE Len(log) + 1

\* the page fetches of the query searched at place p, in order
PagesOf(p) == SelectSeq(SubSeq(log, p + 1, NextSearch(p) - 1), IsPage)

\* the contacts found up to place p of the journal
FoundBy(p) ==
    Cardinality({k \in 1..p : log[k].op = "save_sources" /\ log[k].found})

FoundPages ==
    SelectSeq(log, LAMBDA e : e.op = "save_sources" /\ e.found)

InStore(c) == \E i \in Positions : contacts[i].contact_hash = c.contact_hash

\* C23: a page fetch that fails sets the status of the URL's SourceTracker
\* to error and ends nothing: every query is searched, the result URLs of
\* a query are visited in order up to the one that fills max_new_sources,
\* and the contacts of the pages that were read are returned
C23_FetchFailureIsLocal ==
    pc = "crawled" =>
        /\ \A p \in 1..Len(log) :
              (IsPage(log[p]) /\ ~log[p].ok) =>
                  /\ log[p + 1].op = "save_sources"
                  /\ log[p + 1].url = log[p].at
                  /\ \E j \in 1..Len(log[p + 1].sources) :
                        /\ log[p + 1].sources[j].url = log[p].at
                        /\ log[p + 1].sources[j].status = "error"
        /\ \A q \in 1..queries_per_run :
              \E p \in 1..Len(log) : IsSearch(log[p]) /\ log[p].at = q
        /\ \A p \in 1..Len(log) :
              IsSearch(log[p]) =>
                  LET pages == PagesOf(p)
                      results == log[p].results
                  IN /\ Len(pages) <= Len(results)
                     /\ \A k \in 1..Len(pages) : pages[k].at = results[k]
                     /\ Len(pages) < Len(results) =>
                            FoundBy(NextSearch(p) - 1) >= args.limit
        /\ targets =
              SelectSeq([k \in 1..Len(FoundPages) |-> Page(FoundPages[k].url)],
                        LAMBDA c : ~InStore(c))

\* the first page of the first query could not be fetched; the page after
\* it and the second query were still visited and a contact came back
C23_Witness ==
    /\ pc = "crawled"
    /\ Len(log) >= 4
    /\ IsSearch(log[2]) /\ Len(log[2].results) = 2
    /\ IsPage(log[3]) /\ ~log[3].ok
    /\ Len(PagesOf(2)) = 2 /\ PagesOf(2)[2].ok
    /\ \E p \in 1..Len(log) :
          IsSearch(log[p]) /\ log[p].at = 2 /\ Len(PagesOf(p)) >= 1
    /\ targets # <<>>

IsSave(e) == e.op = "save_sources"

\* the trackers as they were before the visit saved at place p of the journal
SourcesBefore(p) ==
    LET earlier == {k \in 1..(p - 1) : log[k].op \in {"load_sources", "save_sources"}}
        last == CHOOSE k \in earlier : \A l \in earlier : l <= k
    IN log[last].sources

\* C24: a visit by scrape_music_site adds one to the scrape_count of the
\* URL's tracker and sets its last_scraped whatever came of the fetch, adds
\* one to contacts_found exactly when a contact was found, makes the tracker
\* when the URL had none, and leaves the other trackers alone; no URL has
\* two trackers
C24_TrackerCounts ==
    pc = "crawled" =>
        /\ \A p \in 1..Len(log) :
              IsPage(log[p]) =>
                  \E k \in {p + 1, p + 2} :
                      k <= Len(log) /\ IsSave(log[k]) /\ log[k].url = log[p].at
        /\ \A p \in 1..Len(log) :
              IsSave(log[p]) =>
                  LET before == SourcesBefore(p)
                      after == log[p].sources
                      known == find_source(before, log[p].url)
                      j == IF known = 0 THEN Len(before) + 1 ELSE known
                      was == IF known = 0 THEN SourceTracker(log[p].url)
                             ELSE before[known]
                      credit == IF log[p].found THEN 1 ELSE 0
                  IN /\ Len(after) = (IF known = 0 THEN Len(before) + 1
                                      ELSE Len(before))
                     /\ after[j].url = log[p].url
                     /\ after[j].scrape_count = was.scrape_count + 1
                     /\ after[j].last_scraped = now
                     /\ after[j].contacts_found = was.contacts_found + credit
                     /\ \A i \in 1..Len(before) : i # j => after[i] = before[i]
                     /\ \A i, l \in 1..Len(after) :
                           after[i].url = after[l].url => i = l

\* a URL with a tracker from an earlier run was visited twice in this run
\* and its fetch failed, a contact was found at another URL, and a URL got
\* its tracker in this run
C24_Witness ==
    /\ pc = "crawled"
    /\ \E p, r \in 1..Len(log) :
          /\ p < r
          /\ IsSave(log[p]) /\ IsSave(log[r])
          /\ log[p].url = log[r].url
          /\ IsPage(log[p - 1]) /\ ~log[p - 1].ok
          /\ find_source(log[1].sources, log[p].url) # 0
    /\ \E p \in 1..Len(log) : IsSave(log[p]) /\ log[p].found
    /\ \E p \in 1..Len(log) :
          IsSave(log[p]) /\ find_source(SourcesBefore(p), log[p].url) = 0

IsFetch(e) == e.op = "fetch"

\* C26: between two network fetches of a discovery run that follow each
\* other (search requests and page fetches alike) the program sleeps for a
\* time drawn from 1 to 4 seconds, whatever came of the earlier fetch
C26_DelayBetweenFetches ==
    pc = "crawled" =>
        \A p, r \in 1..Len(log) :
            (/\ p < r
             /\ IsFetch(log[p]) /\ IsFetch(log[r])
             /\ \A k \in (p + 1)..(r - 1) : ~IsFetch(log[k]))
            => \E k \in (p + 1)..(r - 1) :
                   /\ log[k].op = "sleep"
                   /\ log[k].lo >= 1
                   /\ log[k].hi <= 4

Attempts == {k \in 1..Len(log) : log[k].op \in {"mail", "form"}}

\* C25: between two send attempts of a batch that follow each other the
\* program sleeps for a time drawn from 2 to 5 seconds, in the manual
\* campaign, the interactive send and the automated daily run alike, whether
\* the earlier attempt succeeded or failed
C25_DelayBetweenSends ==
    \A k, l \in Attempts :
        (k < l /\ \A m \in Attempts : ~(k < m /\ m < l)) =>
            \E d \in 1..Len(slept) :
                /\ k <= slept[d].after /\ slept[d].after < l
                /\ slept[d].lo = 2
                /\ slept[d].hi = 5

Sending == {"send", "isend", "asend"}

\* C27: with one process at a time, from a store where no outreach_count
\* is above max_outreach_per_contact, no run of the manual campaign (with
\* submit_to_search_engines) or of the daily run, interactive or automated,
\* brings an outreach_count above it, in memory or in the store
C27_CountWithinCap ==
    /\ \A i \in Positions :
          contacts[i].outreach_count <= max_outreach_per_contact
    /\ \A i \in 1..Len(contacts_file.data) :
          contacts_file.data[i].outreach_count <= max_outreach_per_contact

\* a contact mailed three times before was mailed a fourth time and saved
C27_Witness ==
    /\ pc = "done"
    /\ \E i \in Positions :
          /\ contacts[i].outreach_count = max_outreach_per_contact
          /\ contacts_file.data[i].outreach_count = max_outreach_per_contact
          /\ \E k \in 1..Len(log) : log[k] = Entry("mail", i, TRUE)

\* C28: with one process at a time and runs that end, an outreach recorded
\* for a contact that has an earlier one (a mail that was sent, or the flag
\* of a manual submission) comes min_outreach_interval days or more after it
C28_EventsApart ==
    [][ (pc \in Sending /\ pc' \in Sending \cup {"done"}) =>
            \A i \in Positions :
                (/\ contacts'[i].outreach_count > contacts[i].outreach_count
                 /\ contacts[i].last_outreach # None)
                => contacts'[i].last_outreach - contacts[i].last_outreach
                       >= min_outreach_interval ]_vars

\* a contact last mailed exactly seven days ago, as the store still shows,
\* has just been mailed again
C28_Witness ==
    /\ pc \in Sending
    /\ \E i \in Positions :
          /\ i <= Len(contacts_file.data)
          /\ contacts_file.data[i].last_outreach = now - min_outreach_interval
          /\ contacts[i].last_outreach = now
          /\ contacts[i].outreach_count = contacts_file.data[i].outreach_count + 1
          /\ \E k \in 1..Len(log) : log[k].i = i /\ log[k].ok

\* C29: a run of the manual campaign or of the daily run has no record twice
\* in its send list and attempts no record twice, so the outreach_count of a
\* record is at most one above what the store held when the loop began
C29_OncePerRun ==
    /\ [](\A k, l \in 1..Len(targets) : targets[k] = targets[l] => k = l)
    /\ []((pc \in Sending \cup {"done"}) =>
              \A k, l \in OwnEntries : log[k].i = log[l].i => k = l)
    /\ [][ (pc \in Sending /\ pc' \in Sending \cup {"done"}) =>
              \A i \in 1..Len(contacts_file.data) :
                  contacts'[i].outreach_count
                      <= contacts_file.data[i].outreach_count + 1 ]_vars

\* a run attempted two records, one after the other, and counted both
C29_Witness ==
    /\ pc = "done"
    /\ Len(targets) = 2
    /\ Len(log) = 2
    /\ log[1].ok /\ log[2].ok
    /\ log[1].i # log[2].i
    /\ ~args.dry_run

\* C30: when the opt-out file cannot be read (it is missing, or it is not
\* valid JSON) is_opted_out answers True, so no address is reported as free
\* to mail on the strength of a file that could not be read
C30_UnreadableMeansOptedOut ==
    (pc = "checked" /\ args.opt_out_file.state # "ok") => targets = <<TRUE>>

====
